---- MODULE Spec2Model ----
(***************************************************************************)
(* Upload-and-relay pipeline of the licitaciones API.                      *)
(*                                                                         *)
(* The repository holds two versions of the server file.  Both register    *)
(* POST /api/upload-batch behind multer's upload.array():                  *)
(*   "single"  src/server.js         upload.array('file'), reads req.file  *)
(*   "batch"   src/unnamed/part_000  upload.array('files', 10)             *)
(* `variant` says which of the two files the process runs.                 *)
(*                                                                         *)
(* One upload request is followed from arrival to answer; the files of    *)
(* other requests and of earlier runs are the leftover file the directory *)
(* may hold at start.                                                      *)
(*                                                                         *)
(* Time is counted in units of ten minutes, measured from process start.   *)
(* A staged file is named by the request and the position of its part:     *)
(* the generated name (timestamp-random-sanitized) is taken to be unique.  *)
(* multer, axios and fs are libraries; they are modelled by what they do   *)
(* for the options the source passes to them.                              *)
(***************************************************************************)
EXTENDS Integers, Sequences, FiniteSets, TLC

\* ---------------------------------------------------------------- bounds
MaxParts == 2
MaxTime == 6

\* ------------------------------------------------------ program constants
\* MAX_FILE_SIZE, in MB (process.env.MAX_FILE_SIZE_MB || 80)
MAX_FILE_SIZE_MB == 80
\* maxAge of the sweeper: 30 * 60 * 1000 ms = 3 units of ten minutes
maxAge == 3
\* period of setInterval: 30 * 60 * 1000 ms = 3 units of ten minutes
SweepInterval == 3
\* axios timeout of the batch relay: 600000 ms = 1 unit
BatchTimeout == 1
\* axios timeout of the single-file relay: 120000 ms, rounded up to 1 unit
SingleTimeout == 1
\* upload.array('files', 10)
BatchMaxCount == 10

Variants == {"single", "batch"}
PDF == "application/pdf"
Mimetypes == {PDF, "text/plain"}
\* sizes of the uploaded parts, in MB (one under, one over the limit)
Sizes == {2, 90}
Part == [mimetype : Mimetypes, sizeMB : Sizes]
PartSeqs == UNION {[1..n -> Part] : n \in 0..MaxParts}
\* optional text fields; "" stands for an absent field (falsy for ||)
NoBody == [process_type |-> "", client_id |-> "", batch_id |-> ""]
Bodies == {NoBody, [process_type |-> "AA", client_id |-> "ACME", batch_id |-> "b7"]}
\* HTTP statuses the downstream may answer with
DownstreamStatuses == {200, 201, 404, 500}
\* network-level failures of axios.post (the promise rejects)
NetworkFailures == {"ECONNREFUSED", "ETIMEDOUT"}
\* response.data as the handler reads it: the single-file handler reads its
\* jobId (absent or present), the batch handler passes it on unread
ResponseData(v) == IF v = "single" THEN {"", "job_n8n"} ELSE {""}

\* name of the file left in the directory by an earlier request or run
Leftover == 0
\* name of the file staged for the k-th part of the request
StagedName(k) == k
Names == {Leftover} \cup {StagedName(k) : k \in 1..MaxParts}
\* mtime of the leftover file: written ten minutes before, or at, process start
LeftoverMtimes == {0 - 1, 0}

VARIABLES
  variant,   \* which server file runs
  now,       \* Date.now(), in units of ten minutes
  dir,       \* TEMP_DIR: file name -> mtime
  req,       \* the request, multer's progress on it, the handler's locals
  hUnlinks,  \* fs.unlink calls issued by the handler and not yet performed
  sweeper,   \* the setInterval callback: phase, captured now, pending stat/unlink
  nextSweep, \* time the interval timer fires next
  enoent,    \* who was handed an error because the file was already absent
  crashed    \* an exception escaped a callback (uncaught)

vars == <<variant, now, dir, req, hUnlinks, sweeper, nextSweep, enoent, crashed>>

NoForm == [parts |-> <<>>, process_type |-> "", client_id |-> "", batch_id |-> "",
           total_files |-> 0, uploaded_by |-> ""]
NoOutcome == [kind |-> "none", status |-> 0, code |-> ""]
NoRes == [status |-> 0, error |-> "", totalFiles |-> 0, jobId |-> ""]
NewReq == [pc |-> "new", parts |-> <<>>, body |-> NoBody, idx |-> 0,
           files |-> <<>>, uploaded |-> {}, err |-> "",
           filePaths |-> <<>>, calls |-> 0, form |-> NoForm, relayStart |-> 0,
           outcome |-> NoOutcome, res |-> NoRes]

EmptyDir == [n \in {} |-> 0]
Range(s) == {s[i] : i \in DOMAIN s}
\* the directory after the files of S are removed
Without(d, S) == [n \in DOMAIN d \ S |-> d[n]]
\* the directory after file n is written at time t
WithFile(d, n, t) == [m \in DOMAIN d \cup {n} |-> IF m = n THEN t ELSE d[m]]
\* JavaScript's  v || d  on strings: the empty (or absent) string is falsy
OrDefault(v, d) == IF v = "" THEN d ELSE v

\* ------------------------------------------------------------------ multer
\* codes of multer's MulterError; a file over limits.fileSize is LIMIT_FILE_SIZE
MulterErrorCodes == {"LIMIT_PART_COUNT", "LIMIT_FILE_SIZE", "LIMIT_FILE_COUNT",
                     "LIMIT_FIELD_KEY", "LIMIT_FIELD_VALUE", "LIMIT_FIELD_COUNT",
                     "LIMIT_UNEXPECTED_FILE", "MISSING_FIELD_NAME"}
\* fileFilter: accepts the part iff its declared type is application/pdf
fileFilter(p) == p.mimetype = PDF
\* limits: { fileSize: MAX_FILE_SIZE }
ExceedsFileSize(p) == p.sizeMB > MAX_FILE_SIZE_MB
\* upload.array(name, maxCount): TRUE when one more file is over maxCount
\* (server.js gives no maxCount)
OverMaxCount(v, n) == v = "batch" /\ n + 1 > BatchMaxCount
\* upload.array() fills req.files and never sets req.file: <<>> is undefined
ReqFile(files) == <<>>

\* --------------------------------------------------------- error middleware
\* app.use((err, req, res, next) => ...): the status it answers with
ErrorMiddleware(err) ==
  IF err \in MulterErrorCodes /\ err = "FILE_TOO_LARGE" THEN 413 ELSE 500

\* ------------------------------------------------------------ the handlers
\* defective variant: parts numbered from 0
FileFieldFromZero(i) == i
\* the number in the part name `file_${i + 1}` of the file at index i (from 0)
FileField(i) == i + 1
\* FormData of the batch handler
BatchForm(q) ==
  [parts |-> [j \in 1..Len(q.files) |-> [field |-> FileField(j - 1), path |-> q.files[j]]],
   process_type |-> OrDefault(q.body.process_type, "GG"),
   client_id |-> OrDefault(q.body.client_id, "INTELEC_SL"),
   batch_id |-> OrDefault(q.body.batch_id, "batch_ts"),
   total_files |-> Len(q.files),
   uploaded_by |-> "backend-api-batch"]
\* FormData of the single-file handler (field 0 is the part named 'file')
SingleForm(q, filePath) ==
  [parts |-> <<[field |-> 0, path |-> filePath]>>,
   process_type |-> OrDefault(q.body.process_type, "GG"),
   client_id |-> OrDefault(q.body.client_id, "INTELEC_SL"),
   batch_id |-> "",
   total_files |-> 0,
   uploaded_by |-> "backend-api"]
\* response.status >= 200 && response.status < 300
IsSuccess(s) == s >= 200 /\ s < 300
\* defective variant: a downstream error status is answered as 500
RelayStatusAs500(s) == IF IsSuccess(s) THEN 200 ELSE 500
\* status of the response after the downstream answered with status s:
\* res.json(...) answers 200, res.status(response.status) answers s
RelayStatus(s) == IF IsSuccess(s) THEN 200 ELSE s
\* the response after the downstream answered (try block, after the cleanup)
RelayResponse(v, q, o, data) ==
  IF IsSuccess(o.status)
    THEN [status |-> RelayStatus(o.status), error |-> "",
          totalFiles |-> IF v = "batch" THEN Len(q.files) ELSE 0,
          jobId |-> IF v = "batch" THEN "" ELSE OrDefault(data, "job_ts")]
    ELSE [status |-> RelayStatus(o.status),
          error |-> IF v = "batch" THEN "Error en N8N" ELSE "N8N error",
          totalFiles |-> 0, jobId |-> ""]
\* the response of the catch block
CatchResponse(o) == [status |-> 500, error |-> o.code, totalFiles |-> 0, jobId |-> ""]
\* the files the try block hands to fs.unlink after the relay
TryCleanup(filePaths, d) == Range(filePaths)
\* the files the catch block hands to fs.unlink: those fs.existsSync finds
CatchCleanup(filePaths, d) == {f \in Range(filePaths) : f \in DOMAIN d}
\* defective variant: a callback that throws the error it is handed
UnlinkCallbackThrows(err) == err # ""
\* the callback of the handlers' fs.unlink, () => {}: TRUE iff it throws
UnlinkCallback(err) == FALSE
\* the callback of the sweeper's fs.unlink, () => console.log(...): TRUE iff it throws
SweepUnlinkCallback(err) == FALSE
\* axios timeout of the relay call
Timeout(v) == IF v = "batch" THEN BatchTimeout ELSE SingleTimeout
\* what axios.post may settle with (validateStatus: () => true: every HTTP
\* status resolves), given how long the call has been out
Outcomes(v, elapsed) ==
  {[kind |-> "http", status |-> s, code |-> ""] : s \in DownstreamStatuses}
  \cup {[kind |-> "network", status |-> 0, code |-> c] :
      c \in {c \in NetworkFailures : c = "ETIMEDOUT" <=> elapsed >= Timeout(v)}}

\* ------------------------------------------------------------- the sweeper
\* defective variant: a file of exactly maxAge is taken as expired
ExpiredAtMaxAge(t, mtime) == t - mtime >= maxAge
\* now - stats.mtimeMs > maxAge
Expired(t, mtime) == t - mtime > maxAge
\* the cycle is over once no stat and no unlink is pending
Settle(s) == IF s.stats = {} /\ s.unlinks = {} THEN [s EXCEPT !.phase = "idle"] ELSE s

Init ==
  /\ variant \in Variants
  /\ now = 0
  /\ dir \in {EmptyDir} \cup {WithFile(EmptyDir, Leftover, m) : m \in LeftoverMtimes}
  /\ req = NewReq
  /\ hUnlinks = {}
  /\ sweeper = [phase |-> "idle", now |-> 0, stats |-> {}, unlinks |-> {}]
  /\ nextSweep = SweepInterval
  /\ enoent = {}
  /\ crashed = FALSE

\* a client sends a multipart request: multer starts to read its parts
Arrive ==
  /\ req.pc = "new"
  /\ \E parts \in PartSeqs, body \in Bodies :
       req' = [req EXCEPT !.pc = "multer", !.parts = parts, !.body = body]
  /\ UNCHANGED <<variant, now, dir, hUnlinks, sweeper, nextSweep, enoent, crashed>>

\* multer takes the next file part: count, filter, write to TEMP_DIR, size limit
MulterPart ==
  LET k == req.idx + 1
      name == StagedName(k)
  IN /\ req.pc = "multer"
     /\ k <= Len(req.parts)
     /\ IF OverMaxCount(variant, Len(req.files))
          THEN /\ req' = [req EXCEPT !.pc = "abort", !.idx = k,
                                     !.err = "LIMIT_UNEXPECTED_FILE"]
               /\ dir' = dir
          ELSE IF ~fileFilter(req.parts[k])
          THEN /\ req' = [req EXCEPT !.pc = "abort", !.idx = k,
                                     !.err = "Solo PDFs permitidos"]
               /\ dir' = dir
          ELSE IF ExceedsFileSize(req.parts[k])
          THEN /\ req' = [req EXCEPT !.pc = "abort", !.idx = k,
                                     !.err = "LIMIT_FILE_SIZE",
                                     !.uploaded = @ \cup {name}]
               /\ dir' = WithFile(dir, name, now)
          ELSE /\ req' = [req EXCEPT !.idx = k,
                                     !.files = Append(@, name),
                                     !.uploaded = @ \cup {name}]
               /\ dir' = WithFile(dir, name, now)
     /\ UNCHANGED <<variant, now, hUnlinks, sweeper, nextSweep, enoent, crashed>>

\* multer aborts: it removes the files it stored, then hands the error to
\* the error middleware, which answers
MulterAbort ==
  /\ req.pc = "abort"
  /\ dir' = Without(dir, req.uploaded)
  /\ req' = [req EXCEPT !.pc = "done",
               !.res = [NoRes EXCEPT !.status = ErrorMiddleware(req.err), !.error = req.err]]
  /\ UNCHANGED <<variant, now, hUnlinks, sweeper, nextSweep, enoent, crashed>>

\* the request body has ended: multer calls next() and the route handler
\* runs up to its await of axios.post
UploadEnd ==
  LET file == ReqFile(req.files)
  IN /\ req.pc = "multer"
     /\ req.idx = Len(req.parts)
     /\ IF variant = "single"
          THEN IF file = <<>>
                 THEN req' = [req EXCEPT !.pc = "done",
                          !.res = [NoRes EXCEPT !.status = 400, !.error = "No file found"]]
                 ELSE req' = [req EXCEPT !.pc = "relay",
                          !.filePaths = <<file[1]>>, !.calls = @ + 1,
                          !.form = SingleForm(req, file[1]), !.relayStart = now]
          ELSE IF Len(req.files) = 0
                 THEN req' = [req EXCEPT !.pc = "done",
                          !.res = [NoRes EXCEPT !.status = 400, !.error = "No files found"]]
                 ELSE req' = [req EXCEPT !.pc = "relay",
                          !.filePaths = req.files, !.calls = @ + 1,
                          !.form = BatchForm(req), !.relayStart = now]
     /\ UNCHANGED <<variant, now, dir, hUnlinks, sweeper, nextSweep, enoent, crashed>>

\* axios.post settles; the handler issues its cleanup and answers
RelayReturn ==
  /\ req.pc = "relay"
  /\ \E o \in Outcomes(variant, now - req.relayStart), data \in ResponseData(variant) :
       IF o.kind = "http"
         THEN /\ hUnlinks' = hUnlinks \cup TryCleanup(req.filePaths, dir)
              /\ req' = [req EXCEPT !.pc = "done", !.outcome = o,
                                    !.res = RelayResponse(variant, req, o, data)]
         ELSE /\ hUnlinks' = hUnlinks \cup CatchCleanup(req.filePaths, dir)
              /\ req' = [req EXCEPT !.pc = "done", !.outcome = o,
                                    !.res = CatchResponse(o)]
  /\ UNCHANGED <<variant, now, dir, sweeper, nextSweep, enoent, crashed>>

\* a handler's fs.unlink is performed and its callback runs
UnlinkDone(f) ==
  /\ f \in hUnlinks
  /\ hUnlinks' = hUnlinks \ {f}
  /\ IF f \in DOMAIN dir
       THEN /\ dir' = Without(dir, {f})
            /\ crashed' = (crashed \/ UnlinkCallback(""))
            /\ enoent' = enoent
       ELSE /\ dir' = dir
            /\ crashed' = (crashed \/ UnlinkCallback("ENOENT"))
            /\ enoent' = enoent \cup {"handler"}
  /\ UNCHANGED <<variant, now, req, sweeper, nextSweep>>

\* the interval timer fires: now is captured and readdir is issued
SweepStart ==
  /\ now = nextSweep
  /\ sweeper.phase = "idle"
  /\ sweeper' = [phase |-> "readdir", now |-> now, stats |-> {}, unlinks |-> {}]
  /\ nextSweep' = nextSweep + SweepInterval
  /\ UNCHANGED <<variant, now, dir, req, hUnlinks, enoent, crashed>>

\* readdir answers: one fs.stat is issued per entry
SweepReaddir ==
  /\ sweeper.phase = "readdir"
  /\ sweeper' = Settle([sweeper EXCEPT !.phase = "scan", !.stats = DOMAIN dir])
  /\ UNCHANGED <<variant, now, dir, req, hUnlinks, nextSweep, enoent, crashed>>

\* fs.stat of one entry answers: an old file gets its fs.unlink issued
SweepStat(f) ==
  /\ sweeper.phase = "scan"
  /\ f \in sweeper.stats
  /\ IF f \notin DOMAIN dir
       THEN /\ sweeper' = Settle([sweeper EXCEPT !.stats = @ \ {f}])
            /\ enoent' = enoent \cup {"stat"}
       ELSE /\ sweeper' = Settle([sweeper EXCEPT !.stats = @ \ {f},
                 !.unlinks = IF Expired(sweeper.now, dir[f]) THEN @ \cup {f} ELSE @])
            /\ enoent' = enoent
  /\ UNCHANGED <<variant, now, dir, req, hUnlinks, nextSweep, crashed>>

\* the sweeper's fs.unlink is performed and its callback runs
SweepUnlink(f) ==
  /\ sweeper.phase = "scan"
  /\ f \in sweeper.unlinks
  /\ sweeper' = Settle([sweeper EXCEPT !.unlinks = @ \ {f}])
  /\ IF f \in DOMAIN dir
       THEN /\ dir' = Without(dir, {f})
            /\ crashed' = (crashed \/ SweepUnlinkCallback(""))
            /\ enoent' = enoent
       ELSE /\ dir' = dir
            /\ crashed' = (crashed \/ SweepUnlinkCallback("ENOENT"))
            /\ enoent' = enoent \cup {"sweeper"}
  /\ UNCHANGED <<variant, now, req, hUnlinks, nextSweep>>

\* ten minutes pass: not past a due timer, nor past the timeout of the relay
Tick ==
  /\ now < MaxTime
  /\ now # nextSweep
  /\ req.pc = "relay" => now - req.relayStart < Timeout(variant)
  /\ now' = now + 1
  /\ UNCHANGED <<variant, dir, req, hUnlinks, sweeper, nextSweep, enoent, crashed>>

Next ==
  \/ Arrive
  \/ MulterPart
  \/ MulterAbort
  \/ UploadEnd
  \/ RelayReturn
  \/ \E f \in Names : UnlinkDone(f)
  \/ SweepStart
  \/ SweepReaddir
  \/ \E f \in Names : SweepStat(f)
  \/ \E f \in Names : SweepUnlink(f)
  \/ Tick

Spec == Init /\ [][Next]_vars

\* ================================================================ claims
\* a part multer accepts: a PDF within the size limit
ValidPdf(p) == p.mimetype = PDF /\ p.sizeMB <= MAX_FILE_SIZE_MB
AllValid == \A k \in 1..Len(req.parts) : ValidPdf(req.parts[k])
Answered == req.pc = "done"

\* C1: once the request is answered, on whatever path, every file that was
\* staged for it is absent from the staging directory or has its delete
\* issued by the handler (no staged file is left to the Sweeper).
C1_NoStagedFileLeft ==
  Answered => \A f \in req.uploaded : f \notin DOMAIN dir \/ f \in hUnlinks

\* C2: single-file handler: a request with exactly one valid PDF part and no
\* optional fields is relayed exactly once with process_type GG and
\* client_id INTELEC_SL, and a downstream 2xx is answered 200 with a
\* non-empty jobId.
C2_SinglePdfRelayedOnce ==
  (variant = "single" /\ Answered /\ Len(req.parts) = 1 /\ AllValid /\ req.body = NoBody)
    => /\ req.calls = 1
       /\ req.form.process_type = "GG"
       /\ req.form.client_id = "INTELEC_SL"
       /\ (req.outcome.kind = "http" /\ req.outcome.status \in 200..299)
            => (req.res.status = 200 /\ req.res.jobId # "")

\* C3: an upload in which a (PDF) file exceeds the maximum size is answered
\* 413, makes no relay call and leaves none of its files in the directory.
C3_TooLargeAnswers413 ==
  (Answered /\ \E k \in 1..Len(req.parts) :
      /\ req.parts[k].mimetype = PDF /\ req.parts[k].sizeMB > MAX_FILE_SIZE_MB
      /\ \A j \in 1..(k - 1) : ValidPdf(req.parts[j]))
    => /\ req.res.status = 413
       /\ req.calls = 0
       /\ \A f \in req.uploaded : f \notin DOMAIN dir

\* C4: an upload with a part whose declared content type is not
\* application/pdf is answered with a 4xx status, makes no relay call and
\* has no file written for that part.
C4_NonPdfAnswers4xx ==
  (Answered /\ \E k \in 1..Len(req.parts) : req.parts[k].mimetype # PDF)
    => /\ req.res.status \in 400..499
       /\ req.calls = 0
       /\ \A k \in 1..Len(req.parts) :
            req.parts[k].mimetype # PDF => StagedName(k) \notin DOMAIN dir

\* C5: batch handler: an accepted batch of N valid PDFs (1 <= N <= 10) makes
\* exactly one relay call (never a second one, and one by the time it is
\* answered), whose payload holds the N files as file_1..file_N in the order
\* received with total_files = N; a downstream 2xx is answered with
\* totalFiles = N.
C5_BatchRelayedOnce ==
  LET N == Len(req.parts)
  IN (variant = "batch" /\ N >= 1 /\ N <= 10 /\ AllValid)
       => /\ req.calls <= 1
          /\ req.pc \in {"relay", "done"}
               => /\ req.calls = 1
                  /\ Len(req.form.parts) = N
                  /\ \A j \in 1..N : /\ req.form.parts[j].field = j
                                     /\ req.form.parts[j].path = StagedName(j)
                  /\ req.form.total_files = N
          /\ (Answered /\ req.outcome.kind = "http" /\ req.outcome.status \in 200..299)
               => req.res.totalFiles = N

\* C5 witness: a batch of two files was relayed in one call and answered 200
C5_Witness ==
  /\ variant = "batch" /\ Answered /\ Len(req.parts) = 2 /\ AllValid
  /\ req.calls = 1 /\ req.outcome.kind = "http" /\ req.outcome.status = 201
  /\ req.res.status = 200 /\ req.res.totalFiles = 2

\* C6: in both handlers the status answered after the relay call is decided
\* by its outcome alone: a downstream 2xx gives 200, any other downstream
\* status s gives s, a network-level failure gives 500 with an error message.
C6_StatusFollowsRelayOutcome ==
  Answered =>
    /\ req.outcome.kind = "http" =>
         req.res.status = (IF req.outcome.status \in 200..299 THEN 200
                                                              ELSE req.outcome.status)
    /\ req.outcome.kind = "network" => (req.res.status = 500 /\ req.res.error # "")

\* C6 witness: a downstream 404 was answered as 404
C6_Witness ==
  /\ Answered /\ req.outcome.kind = "http" /\ req.outcome.status = 404
  /\ req.res.status = 404

\* C7: a request answered with the missing-file 400 made no relay call and
\* staged no file, and it carried no file part under the handler's field.
C7_MissingFile400 ==
  (Answered /\ req.res.status = 400 /\ req.res.error \in {"No file found", "No files found"})
    => /\ req.calls = 0
       /\ req.uploaded = {}
       /\ Len(req.parts) = 0

\* a delete (the handler's or the Sweeper's) of file f completes in this step
\* although f is already absent
SecondDelete(f) ==
  /\ f \notin DOMAIN dir
  /\ \/ f \in hUnlinks /\ f \notin hUnlinks'
     \/ f \in sweeper.unlinks /\ f \notin sweeper'.unlinks

\* C8: when the handler's cleanup and the Sweeper both delete a file, in any
\* order, the delete that comes second is a no-op: it raises nothing, leaves
\* the request and its response as they are, the file stays absent and no
\* other file of the directory is removed or altered.
C8_SecondDeleteIsNoOp ==
  [][(\E f \in Names : SecondDelete(f)) => (dir' = dir /\ req' = req /\ ~crashed')]_vars

\* C8 witness: the handler's delete came second (the Sweeper had removed the
\* file); the request was answered 200 and nothing was raised
C8_Witness ==
  /\ "handler" \in enoent /\ ~crashed
  /\ Answered /\ req.outcome.kind = "http" /\ req.res.status = 200
  /\ \A f \in Range(req.filePaths) : f \notin DOMAIN dir

\* C9: a sweep cycle only deletes files whose age when the sweep started
\* exceeds the TTL, and when the cycle is over no file of such an age is
\* left, also when the stat or the delete of another entry failed.
C9_SweepRemovesOldOnly ==
  /\ \A f \in sweeper.unlinks : f \in DOMAIN dir => sweeper.now - dir[f] > maxAge
  /\ (sweeper.phase = "idle" /\ nextSweep > SweepInterval)
       => \A f \in DOMAIN dir : sweeper.now - dir[f] <= maxAge

\* C9 witness: a cycle is over in which the stat of one entry failed, the
\* old leftover file was removed and a younger file was left in place
C9_Witness ==
  /\ sweeper.phase = "idle" /\ nextSweep > SweepInterval
  /\ "stat" \in enoent
  /\ Leftover \notin DOMAIN dir /\ "sweeper" \notin enoent
  /\ \E f \in DOMAIN dir : sweeper.now - dir[f] <= maxAge /\ dir[f] <= sweeper.now

\* C10: from the moment a file of the request is staged until its relay call
\* has returned, the file is present in the staging directory.
C10_StagedUntilRelayReturns ==
  req.pc \in {"multer", "relay"} => \A f \in Range(req.files) : f \in DOMAIN dir
====
